---- MODULE Spec2Model ----
(***************************************************************************)
(* WordPress site provisioning utility (main.py and the split revision    *)
(* wordpressManager.py / dockerManager.py / logger.py).                    *)
(*                                                                         *)
(* The program is a single-threaded sequence of filesystem operations and *)
(* external commands.  A "world" record holds everything a call can see   *)
(* or change:                                                              *)
(*   dirs      directories that exist (paths are sequences of segments)    *)
(*   files     regular files, path -> content                              *)
(*   links     NGINX symbolic links, link path -> source path              *)
(*   hosts     lines appended to the hosts file (site names)               *)
(*   installed executables that can be launched                            *)
(*   cwd       the process's working directory                             *)
(*   log       what the current call/run did, in order                     *)
(*   exc       the exception in flight ("none" when there is none)         *)
(*   ret       the value returned by the last function that returns one    *)
(* Each Python function is an operator from a world (and the outcomes of   *)
(* the external interactions it performs) to the world it leaves behind.   *)
(* A statement executed while an exception is in flight does nothing.      *)
(*                                                                         *)
(* The pyuac decorator main_requires_admin is taken to find the process    *)
(* already elevated, so the decorated function simply runs.                *)
(***************************************************************************)
EXTENDS Integers, Sequences, FiniteSets, TLC

VARIABLES system, distro, w, w0, pc, argv, status, runs, succeeded, alt, lastOp

vars == <<system, distro, w, w0, pc, argv, status, runs, succeeded, alt, lastOp>>

(***************************************************************************)
(* Bounds                                                                  *)
(***************************************************************************)
\* Number of times the script is launched in one behaviour.
MaxRuns == 2
\* Number of direct calls of WordPressManager operations in one behaviour.
MaxCalls == 3

SiteNames == {"demo"}
Systems == {"Linux", "Darwin", "Windows", "Other"}
\* platform.linux_distribution()[0].lower(); "AttributeError" stands for an
\* interpreter in which platform.linux_distribution no longer exists.
Distros == {"centos", "ubuntu", "other", "AttributeError"}
Dependencies == {"docker", "docker-compose"}
Subcommands == {"enable", "disable", "delete"}

(***************************************************************************)
(* Paths and file contents                                                 *)
(***************************************************************************)
Root == <<>>
\* The directory the script is launched from.
Work == <<"work">>

Parent(p) == IF p = Root THEN Root ELSE SubSeq(p, 1, Len(p) - 1)
Last(p) == p[Len(p)]
IsUnder(p, d) == Len(p) >= Len(d) /\ SubSeq(p, 1, Len(d)) = d

\* Content of a file that was in the directory before the program ran.
Stale == <<"stale">>
\* Content of a file that was opened for writing and whose write failed.
Truncated == <<>>

(***************************************************************************)
(* Statement-level helpers                                                 *)
(***************************************************************************)
Event(op, arg, res, cwd) == [op |-> op, arg |-> arg, res |-> res, cwd |-> cwd]

Logged(x, op, arg, res) ==
    [x EXCEPT !.log = Append(@, Event(op, arg, res, x.cwd))]

Raise(x, e) == [x EXCEPT !.exc = e]

\* logger.info(message) on the Logger instance: writes to the console.
logger_info(x, msg) ==
    IF x.exc # "none" THEN x ELSE Logged(x, "info", <<msg>>, "ok")

logger_error(x, msg) ==
    IF x.exc # "none" THEN x ELSE Logged(x, "error", <<msg>>, "ok")

\* Logger.info(message) on the Logger CLASS (wordpressManager.py imports the
\* class and never instantiates it): the string binds to self and the call
\* fails for the missing positional argument.
Logger_info(x, msg) ==
    IF x.exc # "none" THEN x ELSE Raise(x, "TypeError")

Logger_error(x, msg) ==
    IF x.exc # "none" THEN x ELSE Raise(x, "TypeError")

\* Executables every host of the given kind has, besides the dependencies.
BaseTools ==
    CASE system = "Linux" -> {"sudo"}
      [] system = "Darwin" -> {"sudo", "brew"}
      [] system = "Windows" -> {"cmd", "choco"}
      [] OTHER -> {"sudo"}

Launchable(x, exe) == exe \in x.installed \cup BaseTools

\* subprocess.run(cmd, check=True): the executable cmd[1] must exist, and a
\* non-zero exit status raises CalledProcessError.
subprocess_run(x, cmd, ok) ==
    IF x.exc # "none" THEN x
    ELSE IF ~Launchable(x, cmd[1])
         THEN Raise(Logged(x, "run", cmd, "notfound"), "FileNotFoundError")
    ELSE IF ~ok
         THEN Raise(Logged(x, "run", cmd, "fail"), "CalledProcessError")
    ELSE Logged(x, "run", cmd, "ok")

\* subprocess.run(cmd) without check: the exit status is ignored.
subprocess_run_nocheck(x, cmd, ok) ==
    IF x.exc # "none" THEN x
    ELSE IF ~Launchable(x, cmd[1])
         THEN Raise(Logged(x, "run", cmd, "notfound"), "FileNotFoundError")
    ELSE Logged(x, "run", cmd, IF ok THEN "ok" ELSE "fail")

\* os.chdir(path) for a relative one-segment path.
os_chdir(x, name) ==
    IF x.exc # "none" THEN x
    ELSE IF name = ".." THEN [x EXCEPT !.cwd = Parent(@)]
    ELSE IF (x.cwd \o <<name>>) \in x.dirs
         THEN [x EXCEPT !.cwd = @ \o <<name>>]
    ELSE Raise(x, "FileNotFoundError")

\* os.chdir(path) for an absolute path.
os_chdir_abs(x, p) ==
    IF x.exc # "none" THEN x
    ELSE IF p \in x.dirs THEN [x EXCEPT !.cwd = p]
    ELSE Raise(x, "FileNotFoundError")

\* with open(name, 'w') as f: f.write(content)
\* outcome "ok": the file holds content; "openfail": open raises and the
\* file is untouched; "writefail": open truncated the file and write raised.
write_file(x, name, content, outcome) ==
    LET p == x.cwd \o <<name>>
        put(c) == [q \in (DOMAIN x.files) \cup {p} |->
                      IF q = p THEN c ELSE x.files[q]]
    IN  IF x.exc # "none" THEN x
        ELSE IF outcome = "openfail"
             THEN Raise(Logged(x, "write", <<name>>, "fail"), "OSError")
        ELSE IF outcome = "writefail"
             THEN Raise(Logged([x EXCEPT !.files = put(Truncated)],
                               "write", <<name>>, "fail"), "OSError")
        ELSE Logged([x EXCEPT !.files = put(content)], "write", <<name>>, "ok")

\* Removal of the directory tree rooted at p.
RemoveTree(x, p) ==
    [x EXCEPT !.dirs = {d \in @ : ~IsUnder(d, p)},
              !.files = [q \in {f \in DOMAIN @ : ~IsUnder(f, p)} |-> @[q]]]

\* os.makedirs(name)
os_makedirs(x, name, ok) ==
    IF x.exc # "none" THEN x
    ELSE IF ~ok THEN Raise(Logged(x, "makedirs", <<name>>, "fail"), "OSError")
    ELSE Logged([x EXCEPT !.dirs = @ \cup {x.cwd \o <<name>>}],
                "makedirs", <<name>>, "ok")

\* shutil.rmtree(p)
shutil_rmtree(x, p, ok) ==
    IF x.exc # "none" THEN x
    ELSE IF p \notin x.dirs
         THEN Raise(Logged(x, "rmtree", <<Last(p)>>, "fail"), "FileNotFoundError")
    ELSE IF ~ok THEN Raise(Logged(x, "rmtree", <<Last(p)>>, "fail"), "OSError")
    ELSE Logged(RemoveTree(x, p), "rmtree", <<Last(p)>>, "ok")

(***************************************************************************)
(* DockerManager (main.py 61-128, dockerManager.py 10-81: same text)       *)
(***************************************************************************)
\* try: subprocess.run([dependency, '--version'], check=True)
\* except FileNotFoundError: return False
\* return True
check_dependency_installed(x, dependency, ok) ==
    LET r == subprocess_run(x, <<dependency, "--version">>, ok)
    IN  IF x.exc # "none" THEN x
        ELSE IF r.exc = "FileNotFoundError"
             THEN [r EXCEPT !.exc = "none", !.ret = FALSE]
        ELSE IF r.exc # "none" THEN r
        ELSE [r EXCEPT !.ret = TRUE]

\* A package manager that exits with status 0 has installed the package.
PackageInstall(x, cmd, dependency, ok) ==
    LET r == subprocess_run(x, cmd, ok)
    IN  IF r.exc = "none" /\ x.exc = "none"
        THEN [r EXCEPT !.installed = @ \cup {dependency}]
        ELSE r

\* install_dependency without its macOS branch.
install_dependency_noBrew(x, dependency, ok) ==
    LET x1 == logger_info(x, "not installed. Installing...")
    IN  IF x.exc # "none" THEN x
        ELSE IF system = "Linux" THEN
            IF distro = "AttributeError" THEN Raise(x1, "AttributeError")
            ELSE IF distro \in {"rhel", "centos", "suse"}
                 THEN PackageInstall(x1, <<"sudo", "yum", "install", "-y", dependency>>,
                                     dependency, ok)
            ELSE IF distro = "ubuntu"
                 THEN PackageInstall(x1, <<"sudo", "apt", "install", "-y", dependency>>,
                                     dependency, ok)
            ELSE logger_info(x1, "unsupported Linux distribution")
        ELSE IF system = "Windows"
             THEN PackageInstall(x1, <<"choco", "install", "-y", dependency>>,
                                 dependency, ok)
        ELSE logger_info(x1, "unsupported operating system")

install_dependency(x, dependency, ok) ==
    LET x1 == logger_info(x, "not installed. Installing...")
    IN  IF x.exc # "none" THEN x
        ELSE IF system = "Linux" THEN
            IF distro = "AttributeError" THEN Raise(x1, "AttributeError")
            ELSE IF distro \in {"rhel", "centos", "suse"}
                 THEN PackageInstall(x1, <<"sudo", "yum", "install", "-y", dependency>>,
                                     dependency, ok)
            ELSE IF distro = "ubuntu"
                 THEN PackageInstall(x1, <<"sudo", "apt", "install", "-y", dependency>>,
                                     dependency, ok)
            ELSE logger_info(x1, "unsupported Linux distribution")
        ELSE IF system = "Darwin"
             THEN PackageInstall(x1, <<"brew", "install", dependency>>, dependency, ok)
        ELSE IF system = "Windows"
             THEN PackageInstall(x1, <<"choco", "install", "-y", dependency>>,
                                 dependency, ok)
        ELSE logger_info(x1, "unsupported operating system")

\* The path at which the link appears: ln -s into a directory names the link
\* after the source; mklink names it by its first argument.
LinkPath(source, target) ==
    IF system = "Linux" THEN target \o <<Last(source)>> ELSE target

\* ln -s (without -f) and mklink both exit non-zero when the link path is
\* already taken.
create_symbolic_link(x, source, target, ok) ==
    LET link == LinkPath(source, target)
        free == link \notin DOMAIN x.links
        cmd == IF system = "Linux" THEN <<"sudo", "ln", "-s">>
               ELSE <<"cmd", "/C", "mklink", "/D">>
        r == subprocess_run(x, cmd, ok /\ free)
    IN  IF x.exc # "none" THEN x
        ELSE IF system \in {"Linux", "Windows"}
             THEN IF r.exc = "none"
                  THEN [r EXCEPT !.links = [l \in (DOMAIN @) \cup {link} |->
                                               IF l = link THEN source ELSE @[l]]]
                  ELSE r
        ELSE logger_info(x, "symbolic link unsupported")

(***************************************************************************)
(* WordPressManager, main.py 131-274                                       *)
(***************************************************************************)
\* compose_content: an f-string without placeholders.
compose_content == <<"compose">>
\* nginx_content: server_name {site_name}
nginx_content(site_name) == <<"nginx", site_name>>

\* main.py 199-205: nginx_conf_symlink is bound only on Linux and Windows;
\* elsewhere evaluating the call's arguments raises UnboundLocalError.
link_nginx_conf(x, site_name, ok) ==
    LET nginx_conf_path == x.cwd \o <<"nginx.conf">>
    IN  IF x.exc # "none" THEN x
        ELSE IF system = "Linux"
             THEN create_symbolic_link(x, nginx_conf_path,
                                       <<"etc", "nginx", "sites-enabled">>, ok)
        ELSE IF system = "Windows"
             THEN create_symbolic_link(x, nginx_conf_path,
                      <<"C:", "nginx", "conf", "sites-enabled", site_name>>, ok)
        ELSE Raise(x, "UnboundLocalError")

\* create_wordpress_site that removes the site directory when a step fails.
create_wordpress_site_rollback(x, site_name, o) ==
    LET x1 == os_chdir(x, site_name)
        x2 == write_file(x1, "docker-compose.yml", compose_content, o.compose)
        x3 == write_file(x2, "nginx.conf", nginx_content(site_name), o.nginx)
        x4 == link_nginx_conf(x3, site_name, o.ln)
        x5 == subprocess_run(x4, <<"docker-compose", "up", "-d">>, o.up)
    IN  IF x1.exc = "none" /\ x5.exc # "none" THEN RemoveTree(x5, x1.cwd) ELSE x5

\* o: outcomes of the two writes, the link command and docker-compose up.
create_wordpress_site(x, site_name, o) ==
    LET x1 == os_chdir(x, site_name)
        x2 == write_file(x1, "docker-compose.yml", compose_content, o.compose)
        x3 == write_file(x2, "nginx.conf", nginx_content(site_name), o.nginx)
        x4 == link_nginx_conf(x3, site_name, o.ln)
    IN  subprocess_run(x4, <<"docker-compose", "up", "-d">>, o.up)

\* enable_disable_site with the two commands exchanged.
enable_disable_site_swapped(x, action, ok) ==
    IF action = "enable"
    THEN logger_info(subprocess_run(x, <<"docker-compose", "stop">>, ok),
                     "Site enabled.")
    ELSE IF action = "disable"
    THEN logger_info(subprocess_run(x, <<"docker-compose", "start">>, ok),
                     "Site disabled.")
    ELSE x

enable_disable_site(x, action, ok) ==
    IF action = "enable"
    THEN logger_info(subprocess_run(x, <<"docker-compose", "start">>, ok),
                     "Site enabled.")
    ELSE IF action = "disable"
    THEN logger_info(subprocess_run(x, <<"docker-compose", "stop">>, ok),
                     "Site disabled.")
    ELSE x

\* delete_site that also takes back the NGINX link and the hosts lines.
delete_site_cleanup(x, site_name, o) ==
    LET site_path == x.cwd \o <<site_name>>
        x1 == os_chdir_abs(x, Parent(site_path))
        x2 == subprocess_run(x1, <<"docker-compose", "down">>, o.down)
        x3 == os_chdir(x2, "..")
        x4 == shutil_rmtree(x3, x3.cwd \o <<site_name>>, o.rm)
        x5 == IF x4.exc = "none"
              THEN [x4 EXCEPT !.links = [l \in {} |-> Root],
                              !.hosts = SelectSeq(@, LAMBDA h : h # site_name)]
              ELSE x4
    IN  logger_info(x5, "Site deleted.")

\* delete_site that runs docker-compose down without check=True.
delete_site_unchecked(x, site_name, o) ==
    LET site_path == x.cwd \o <<site_name>>
        x1 == os_chdir_abs(x, Parent(site_path))
        x2 == subprocess_run_nocheck(x1, <<"docker-compose", "down">>, o.down)
        x3 == os_chdir(x2, "..")
        x4 == shutil_rmtree(x3, x3.cwd \o <<site_name>>, o.rm)
    IN  logger_info(x4, "Site deleted.")

\* o: outcomes of docker-compose down and of the removal.
delete_site(x, site_name, o) ==
    LET site_path == x.cwd \o <<site_name>>
        x1 == os_chdir_abs(x, Parent(site_path))
        x2 == subprocess_run(x1, <<"docker-compose", "down">>, o.down)
        x3 == os_chdir(x2, "..")
        x4 == shutil_rmtree(x3, x3.cwd \o <<site_name>>, o.rm)
    IN  logger_info(x4, "Site deleted.")

\* add_hosts_entry without its Windows branch.
add_hosts_entry_linuxOnly(x, site_name, ok) ==
    IF x.exc # "none" THEN x
    ELSE IF system = "Linux"
         THEN LET try == IF ok
                         THEN logger_info(
                                  Logged([x EXCEPT !.hosts = Append(@, site_name)],
                                         "append", <<"hosts">>, "ok"),
                                  "Hosts entry added successfully.")
                         ELSE Raise(Logged(x, "append", <<"hosts">>, "fail"),
                                    "OSError")
              IN  IF try.exc # "none"
                  THEN logger_error([try EXCEPT !.exc = "none"],
                                    "Failed to add hosts entry")
                  ELSE try
    ELSE logger_info(x, "hosts unsupported")

add_hosts_entry(x, site_name, ok) ==
    IF x.exc # "none" THEN x
    ELSE IF system \in {"Windows", "Linux"}
         THEN LET try == IF ok
                         THEN logger_info(
                                  Logged([x EXCEPT !.hosts = Append(@, site_name)],
                                         "append", <<"hosts">>, "ok"),
                                  "Hosts entry added successfully.")
                         ELSE Raise(Logged(x, "append", <<"hosts">>, "fail"),
                                    "OSError")
              IN  IF try.exc # "none"
                  THEN logger_error([try EXCEPT !.exc = "none"],
                                    "Failed to add hosts entry")
                  ELSE try
    ELSE logger_info(x, "hosts unsupported")

(***************************************************************************)
(* WordPressManager, wordpressManager.py 9-154                             *)
(***************************************************************************)
wordpressManager_create_wordpress_site(x, site_name, o) ==
    LET x1 == os_chdir(x, site_name)
        x2 == write_file(x1, "docker-compose.yml", compose_content, o.compose)
        x3 == write_file(x2, "nginx.conf", nginx_content(site_name), o.nginx)
        x4 == link_nginx_conf(x3, site_name, o.ln)
    IN  subprocess_run(x4, <<"docker-compose", "up", "-d">>, o.up)

wordpressManager_enable_disable_site(x, action, ok) ==
    IF action = "enable"
    THEN Logger_info(subprocess_run(x, <<"docker-compose", "start">>, ok),
                     "Site enabled.")
    ELSE IF action = "disable"
    THEN Logger_info(subprocess_run(x, <<"docker-compose", "stop">>, ok),
                     "Site disabled.")
    ELSE x

\* sudo rm -rf site_name, run without check: a failure is ignored, and a
\* missing directory is not a failure.
wordpressManager_delete_site(x, site_name, o) ==
    LET x1 == os_chdir(x, site_name)
        x2 == subprocess_run(x1, <<"docker-compose", "down">>, o.down)
        x3 == os_chdir(x2, "..")
        x4 == subprocess_run_nocheck(x3, <<"sudo", "rm", "-rf", site_name>>, o.rm)
        x5 == IF x3.exc = "none" /\ x4.exc = "none" /\ o.rm
              THEN RemoveTree(x4, x4.cwd \o <<site_name>>)
              ELSE x4
    IN  Logger_info(x5, "Site deleted.")

\* The Logger.info inside the try block raises TypeError, the broad except
\* catches it, and the Logger.error of the handler raises it again.
wordpressManager_add_hosts_entry(x, site_name, ok) ==
    IF x.exc # "none" THEN x
    ELSE IF system \in {"Windows", "Linux"}
         THEN LET try == IF ok
                         THEN Logger_info(
                                  Logged([x EXCEPT !.hosts = Append(@, site_name)],
                                         "append", <<"hosts">>, "ok"),
                                  "Hosts entry added successfully.")
                         ELSE Raise(Logged(x, "append", <<"hosts">>, "fail"),
                                    "OSError")
              IN  IF try.exc # "none"
                  THEN Logger_error([try EXCEPT !.exc = "none"],
                                    "Failed to add hosts entry")
                  ELSE try
    ELSE Logger_info(x, "hosts unsupported")

(***************************************************************************)
(* main(), main.py 277-332, one action per statement group                 *)
(***************************************************************************)
\* if not check_dependency_installed(d): install_dependency(d)
ensure_dependency(x, dependency, okCheck, okInstall) ==
    LET c == check_dependency_installed(x, dependency, okCheck)
    IN  IF c.exc = "none" /\ ~c.ret
        THEN install_dependency(c, dependency, okInstall)
        ELSE c

\* sys.argv[1:] of a launch.
Argvs ==
    {<<>>} \cup {<<n>> : n \in SiteNames}
           \cup {<<n, a>> : n \in SiteNames, a \in Subcommands \cup {"bogus"}}

WriteOutcomes == {"ok", "openfail", "writefail"}
CreateOutcomes == [compose : WriteOutcomes, nginx : WriteOutcomes,
                   ln : BOOLEAN, up : BOOLEAN]
DeleteOutcomes == [down : BOOLEAN, rm : BOOLEAN]

\* The state a site directory can be in before the program first runs.
InitWorld(inst, pre, dir) ==
    [dirs |-> {Root, Work} \cup {Work \o <<n>> : n \in {m \in SiteNames : pre[m] # "absent"}},
     files |-> [q \in {Work \o <<n, f>> : n \in {m \in SiteNames : pre[m] = "stale"},
                                          f \in {"docker-compose.yml", "nginx.conf"}}
                  |-> Stale],
     links |-> [l \in {} |-> Root],
     hosts |-> <<>>,
     installed |-> inst,
     cwd |-> dir,
     log |-> <<>>,
     exc |-> "none",
     ret |-> FALSE]

Fresh(x, dir) == [x EXCEPT !.cwd = dir, !.log = <<>>, !.exc = "none", !.ret = FALSE]

InitEnv ==
    /\ system \in Systems
    /\ distro \in IF system = "Linux" THEN Distros ELSE {"n/a"}

Init ==
    /\ InitEnv
    /\ \E inst \in SUBSET Dependencies, pre \in [SiteNames -> {"absent", "empty", "stale"}] :
          w = InitWorld(inst, pre, Work)
    /\ w0 = w
    /\ alt = w
    /\ pc = "idle"
    /\ argv = <<>>
    /\ status = "none"
    /\ runs = 0
    /\ succeeded = {}
    /\ lastOp = <<>>

\* An uncaught exception ends the process with status 1.
Continue(x, next) ==
    /\ w' = x
    /\ IF x.exc # "none"
       THEN pc' = "exited" /\ status' = "1"
       ELSE pc' = next /\ status' = status

\* The script is launched from the work directory.
StartRun ==
    /\ pc \in {"idle", "exited"}
    /\ runs < MaxRuns
    /\ \E args \in Argvs : argv' = args
    /\ w' = Fresh(w, Work)
    /\ w0' = w'
    /\ pc' = "deps"
    /\ status' = "running"
    /\ runs' = runs + 1
    /\ UNCHANGED <<system, distro, succeeded, alt, lastOp>>

\* main.py 286-290
CheckDependencies ==
    /\ pc = "deps"
    /\ \E c1, i1, c2, i2 \in BOOLEAN :
          Continue(ensure_dependency(ensure_dependency(w, "docker", c1, i1),
                                     "docker-compose", c2, i2), "args")
    /\ UNCHANGED <<system, distro, w0, argv, runs, succeeded, alt, lastOp>>

\* main.py 292-296
CheckArgs ==
    /\ pc = "args"
    /\ IF Len(argv) < 1
       THEN /\ w' = logger_error(w, "Please provide a site name")
            /\ pc' = "exited"
            /\ status' = "1"
       ELSE /\ w' = w
            /\ pc' = "mkdir"
            /\ status' = status
    /\ UNCHANGED <<system, distro, w0, argv, runs, succeeded, alt, lastOp>>

\* main.py 298-299
MakeSiteDir ==
    /\ pc = "mkdir"
    /\ IF (w.cwd \o <<argv[1]>>) \notin w.dirs
       THEN \E ok \in BOOLEAN : Continue(os_makedirs(w, argv[1], ok), "create")
       ELSE Continue(w, "create")
    /\ UNCHANGED <<system, distro, w0, argv, runs, succeeded, alt, lastOp>>

\* main.py 301
CreateSite ==
    /\ pc = "create"
    /\ \E o \in CreateOutcomes : Continue(create_wordpress_site(w, argv[1], o), "hosts")
    /\ UNCHANGED <<system, distro, w0, argv, runs, succeeded, alt, lastOp>>

\* main.py 304-306
AddHosts ==
    /\ pc = "hosts"
    /\ \E ok \in BOOLEAN :
          Continue(logger_info(add_hosts_entry(w, argv[1], ok),
                               "WordPress site created successfully."), "dispatch")
    /\ UNCHANGED <<system, distro, w0, argv, runs, succeeded, alt, lastOp>>

\* argparse: args.action is None without a subcommand, one of the three
\* registered subcommands, or the parser exits with status 2.
parse_action(args) ==
    IF Len(args) = 1 THEN "None"
    ELSE IF args[2] \in Subcommands THEN args[2]
    ELSE "SystemExit"

\* dispatch that treats a missing subcommand as enable.
dispatch_defaultEnable(x, site_name, action, okCmd, o) ==
    IF action = "enable" THEN enable_disable_site(x, "enable", okCmd)
    ELSE IF action = "disable" THEN enable_disable_site(x, "disable", okCmd)
    ELSE IF action = "delete" THEN delete_site(x, site_name, o)
    ELSE IF action = "None" THEN enable_disable_site(x, "enable", okCmd)
    ELSE logger_info(x, "Invalid action.")

\* main.py 323-332
dispatch(x, site_name, action, okCmd, o) ==
    IF action = "enable" THEN enable_disable_site(x, "enable", okCmd)
    ELSE IF action = "disable" THEN enable_disable_site(x, "disable", okCmd)
    ELSE IF action = "delete" THEN delete_site(x, site_name, o)
    ELSE IF action = "None" THEN logger_info(x, "Your site is running on localhost.")
    ELSE logger_info(x, "Invalid action.")

\* main.py 308-332
Dispatch ==
    /\ pc = "dispatch"
    /\ IF parse_action(argv) = "SystemExit"
       THEN /\ w' = w
            /\ status' = "2"
            /\ succeeded' = succeeded
       ELSE \E okCmd \in BOOLEAN, o \in DeleteOutcomes :
               /\ w' = dispatch(w, argv[1], parse_action(argv), okCmd, o)
               /\ status' = IF w'.exc # "none" THEN "1" ELSE "0"
               /\ succeeded' = IF w'.exc # "none" THEN succeeded
                               ELSE succeeded \cup {argv[1]}
    /\ pc' = "exited"
    /\ UNCHANGED <<system, distro, w0, argv, runs, alt, lastOp>>

Next ==
    \/ StartRun
    \/ CheckDependencies
    \/ CheckArgs
    \/ MakeSiteDir
    \/ CreateSite
    \/ AddHosts
    \/ Dispatch

Spec == Init /\ [][Next]_vars

(***************************************************************************)
(* Direct calls of the WordPressManager operations.  Each call is applied  *)
(* to the same starting world in both revisions: w follows main.py, alt    *)
(* holds what wordpressManager.py leaves behind for the same call, and w0  *)
(* is the world the call started from.  The caller survives an exception.  *)
(***************************************************************************)
ActionValues == {"enable", "disable", "delete", "status"}

InitCalls ==
    /\ InitEnv
    /\ \E inst \in SUBSET Dependencies,
          pre \in [SiteNames -> {"absent", "empty", "stale"}],
          dir \in {Work} \cup {Work \o <<n>> : n \in SiteNames} :
          /\ dir \in InitWorld(inst, pre, Work).dirs
          /\ w = InitWorld(inst, pre, dir)
    /\ w0 = w
    /\ alt = w
    /\ pc = "calls"
    /\ argv = <<>>
    /\ status = "none"
    /\ runs = 0
    /\ succeeded = {}
    /\ lastOp = <<>>

Call(op, arg, a, b) ==
    /\ pc = "calls"
    /\ runs < MaxCalls
    /\ w0' = Fresh(w, w.cwd)
    /\ w' = a
    /\ alt' = b
    /\ lastOp' = <<op, arg>>
    /\ runs' = runs + 1
    /\ UNCHANGED <<system, distro, pc, argv, status, succeeded>>

CallCreate ==
    \E n \in SiteNames, o \in CreateOutcomes :
       Call("create_wordpress_site", n,
            create_wordpress_site(Fresh(w, w.cwd), n, o),
            wordpressManager_create_wordpress_site(Fresh(w, w.cwd), n, o))

CallEnableDisable ==
    \E a \in ActionValues, ok \in BOOLEAN :
       Call("enable_disable_site", a,
            enable_disable_site(Fresh(w, w.cwd), a, ok),
            wordpressManager_enable_disable_site(Fresh(w, w.cwd), a, ok))

CallDelete ==
    \E n \in SiteNames, o \in DeleteOutcomes :
       Call("delete_site", n,
            delete_site(Fresh(w, w.cwd), n, o),
            wordpressManager_delete_site(Fresh(w, w.cwd), n, o))

CallAddHosts ==
    \E n \in SiteNames, ok \in BOOLEAN :
       Call("add_hosts_entry", n,
            add_hosts_entry(Fresh(w, w.cwd), n, ok),
            wordpressManager_add_hosts_entry(Fresh(w, w.cwd), n, ok))

NextCalls ==
    \/ CallCreate
    \/ CallEnableDisable
    \/ CallDelete
    \/ CallAddHosts

SpecCalls == InitCalls /\ [][NextCalls]_vars

(***************************************************************************)
(* Vocabulary of the properties                                            *)
(***************************************************************************)
SiteDir(n) == Work \o <<n>>

UpCmd == <<"docker-compose", "up", "-d">>
StartCmd == <<"docker-compose", "start">>
StopCmd == <<"docker-compose", "stop">>
DownCmd == <<"docker-compose", "down">>

\* Positions in a log of the events with the given operation and argument.
At(log, op, arg) == {i \in DOMAIN log : log[i].op = op /\ log[i].arg = arg}
AtOk(log, op, arg) == {i \in At(log, op, arg) : log[i].res = "ok"}
\* Positions of the link commands (ln -s, mklink).
AtLink(log) == At(log, "run", <<"sudo", "ln", "-s">>)
                  \cup At(log, "run", <<"cmd", "/C", "mklink", "/D">>)
\* Positions of the package-manager invocations for a dependency.
AtInstall(log, d) ==
    {i \in DOMAIN log : /\ log[i].op = "run"
                        /\ log[i].arg[Len(log[i].arg)] = d
                        /\ \E k \in DOMAIN log[i].arg : log[i].arg[k] = "install"}
\* The external commands of a log, in order.
RECURSIVE Commands(_)
Commands(log) ==
    IF log = <<>> THEN <<>>
    ELSE IF log[1].op = "run" THEN <<log[1].arg>> \o Commands(Tail(log))
    ELSE Commands(Tail(log))

\* The launch has a site name and create_wordpress_site has returned or raised.
CreateActed == Len(argv) >= 1 /\ pc \in {"hosts", "dispatch", "exited"}
                              /\ At(w.log, "write", <<"docker-compose.yml">>) # {}
BothWritten == /\ AtOk(w.log, "write", <<"docker-compose.yml">>) # {}
               /\ AtOk(w.log, "write", <<"nginx.conf">>) # {}
SameSystemState(x, y) ==
    /\ x.dirs = y.dirs
    /\ x.files = y.files
    /\ x.links = y.links
    /\ x.hosts = y.hosts
    /\ x.installed = y.installed

(***************************************************************************)
(* C1.  A second provisioning run for a site that an earlier run created   *)
(* successfully, and whose directory still exists, completes: once both    *)
(* files have been overwritten the link step succeeds and docker-compose   *)
(* up -d is invoked.                                                       *)
(***************************************************************************)
C1_RerunCompletes ==
    (/\ CreateActed
     /\ argv[1] \in succeeded
     /\ SiteDir(argv[1]) \in w0.dirs
     /\ w.exc # "none" \/ pc # "exited"
     /\ BothWritten)
    => /\ w.files[SiteDir(argv[1]) \o <<"docker-compose.yml">>] = compose_content
       /\ w.files[SiteDir(argv[1]) \o <<"nginx.conf">>] = nginx_content(argv[1])
       /\ (system \in {"Linux", "Windows"} =>
              \E i \in AtLink(w.log) : w.log[i].res = "ok")
       /\ At(w.log, "run", UpCmd) # {}

(***************************************************************************)
(* C2.  When the site directory does not exist and every external command  *)
(* succeeds, one run creates the directory, writes both files and invokes  *)
(* docker-compose up -d exactly once, in the order directory, files, link, *)
(* up.                                                                     *)
(***************************************************************************)
C2_FreshCreateOrder ==
    (/\ CreateActed
     /\ SiteDir(argv[1]) \notin w0.dirs
     /\ \A i \in DOMAIN w.log : w.log[i].res = "ok")
    => /\ SiteDir(argv[1]) \in w.dirs \/ parse_action(argv) = "delete"
       /\ Cardinality(At(w.log, "run", UpCmd)) = 1
       /\ \A u \in At(w.log, "run", UpCmd) :
             /\ \E m \in AtOk(w.log, "makedirs", <<argv[1]>>) :
                \E c \in AtOk(w.log, "write", <<"docker-compose.yml">>) :
                \E n \in AtOk(w.log, "write", <<"nginx.conf">>) :
                   m < c /\ c < n /\ n < u
             /\ \A l \in AtLink(w.log) :
                   l < u /\ \A n \in At(w.log, "write", <<"nginx.conf">>) : n < l

(***************************************************************************)
(* C3.  delete_site after a successful create_wordpress_site in the same   *)
(* process: docker-compose down is invoked from inside the site directory  *)
(* before any removal; when down succeeds and delete_site returns, the     *)
(* site directory is gone; when down fails, nothing is removed.            *)
(***************************************************************************)
DeleteActed ==
    /\ pc = "exited"
    /\ Len(argv) >= 1
    /\ parse_action(argv) = "delete"
    /\ AtOk(w.log, "run", UpCmd) # {}

C3_DeleteAfterCreate ==
    DeleteActed =>
       /\ Cardinality(At(w.log, "run", DownCmd)) = 1
       /\ \A d \in At(w.log, "run", DownCmd) :
             /\ w.log[d].cwd = SiteDir(argv[1])
             /\ \A r \in At(w.log, "rmtree", <<argv[1]>>) : d < r
             /\ (w.log[d].res = "ok" /\ w.exc = "none") =>
                   /\ SiteDir(argv[1]) \notin w.dirs
                   /\ \A f \in DOMAIN w.files : ~IsUnder(f, SiteDir(argv[1]))
             /\ w.log[d].res # "ok" =>
                   /\ w.exc = "CalledProcessError"
                   /\ At(w.log, "rmtree", <<argv[1]>>) = {}
                   /\ SiteDir(argv[1]) \in w.dirs
                   /\ \A f \in {"docker-compose.yml", "nginx.conf"} :
                         SiteDir(argv[1]) \o <<f>> \in DOMAIN w.files

C3_Witness ==
    /\ DeleteActed
    /\ AtOk(w.log, "run", DownCmd) # {}
    /\ w.exc = "none"
    /\ SiteDir(argv[1]) \in w0.dirs
    /\ SiteDir(argv[1]) \notin w.dirs

(***************************************************************************)
(* C4.  On a platform that is neither Linux nor Windows the link step is   *)
(* logged as unsupported and skipped; the run goes on and docker-compose   *)
(* up -d is invoked after the files are written.                           *)
(***************************************************************************)
C4_UnsupportedPlatformSkips ==
    (/\ CreateActed
     /\ system \notin {"Linux", "Windows"}
     /\ BothWritten)
    => /\ At(w.log, "info", <<"symbolic link unsupported">>) # {}
       /\ \E u \in At(w.log, "run", UpCmd) :
             \A n \in At(w.log, "write", <<"nginx.conf">>) : n < u

(***************************************************************************)
(* C5.  For a dependency whose executable does not exist,                  *)
(* check_dependency_installed returns False without raising and the caller *)
(* then makes exactly one package-manager invocation for it, on every      *)
(* platform and distribution.                                              *)
(***************************************************************************)
AtMissing(log, d) ==
    {i \in At(log, "run", <<d, "--version">>) : log[i].res = "notfound"}

C5_OneInstallEverywhere ==
    \A d \in Dependencies :
       \A i \in AtMissing(w.log, d) :
          /\ i + 1 \in At(w.log, "info", <<"not installed. Installing...">>)
          /\ Cardinality(AtInstall(w.log, d)) = 1

\* The branches of install_dependency that run a package manager.
InstallSupported ==
    \/ system = "Linux" /\ distro \in {"rhel", "centos", "suse", "ubuntu"}
    \/ system \in {"Darwin", "Windows"}

(***************************************************************************)
(* C5, as the code has it.  For a dependency whose executable does not     *)
(* exist the check returns False without raising and install_dependency is *)
(* entered right after it; there it makes exactly one package-manager      *)
(* invocation on Linux rhel/centos/suse/ubuntu, macOS and Windows, and     *)
(* none on any other distribution or operating system, nor where           *)
(* platform.linux_distribution is missing.                                 *)
(***************************************************************************)
C5_OneInstallWhereSupported ==
    \A d \in Dependencies :
       \A i \in AtMissing(w.log, d) :
          /\ i + 1 \in At(w.log, "info", <<"not installed. Installing...">>)
          /\ Cardinality(AtMissing(w.log, d)) = 1
          /\ IF InstallSupported
             THEN AtInstall(w.log, d) = {i + 2}
             ELSE AtInstall(w.log, d) = {}

C5_Witness ==
    /\ InstallSupported
    /\ \E d \in Dependencies :
          /\ AtMissing(w.log, d) # {}
          /\ Cardinality(AtInstall(w.log, d)) = 1
          /\ d \in w.installed

(***************************************************************************)
(* C6.  Started without a site name, the program exits with status 1 and   *)
(* has changed nothing by then: no directory, file, link or hosts entry,   *)
(* and no installer or container command was run.                          *)
(***************************************************************************)
C6_NoSiteNameNoMutation ==
    (pc = "exited" /\ Len(argv) = 0)
    => /\ status = "1"
       /\ SameSystemState(w, w0)
       /\ \A d \in Dependencies : AtInstall(w.log, d) = {}
       /\ \A i \in DOMAIN w.log :
             w.log[i].op = "run" => w.log[i].arg \notin {UpCmd, StartCmd, StopCmd, DownCmd}

(***************************************************************************)
(* C7.  enable_disable_site('enable') invokes exactly docker-compose       *)
(* start, enable_disable_site('disable') exactly docker-compose stop, any  *)
(* other action no command at all; the directories and files are left as   *)
(* they were.  Both revisions.                                              *)
(***************************************************************************)
ExpectedCommands(action) ==
    IF action = "enable" THEN <<StartCmd>>
    ELSE IF action = "disable" THEN <<StopCmd>>
    ELSE <<>>

C7_EnableDisableFrame ==
    (Len(lastOp) = 2 /\ lastOp[1] = "enable_disable_site")
    => \A x \in {w, alt} :
          /\ Commands(x.log) = ExpectedCommands(lastOp[2])
          /\ x.dirs = w0.dirs
          /\ x.files = w0.files
          /\ x.links = w0.links
          /\ x.hosts = w0.hosts
          /\ x.cwd = w0.cwd

C7_Witness ==
    /\ Len(lastOp) = 2
    /\ lastOp = <<"enable_disable_site", "enable">>
    /\ \E n \in SiteNames :
          /\ w0.cwd = SiteDir(n)
          /\ SiteDir(n) \o <<"docker-compose.yml">> \in DOMAIN w0.files
          /\ w0.files[SiteDir(n) \o <<"docker-compose.yml">>] = compose_content
    /\ AtOk(w.log, "run", StartCmd) # {}
    /\ AtOk(alt.log, "run", StartCmd) # {}

(***************************************************************************)
(* C8.  A launch with a site name and no subcommand is a no-op: it prints  *)
(* the running message and changes nothing.                                *)
(***************************************************************************)
C8_NoSubcommandNoOp ==
    (pc = "exited" /\ Len(argv) = 1 /\ status = "0")
    => /\ At(w.log, "info", <<"Your site is running on localhost.">>) # {}
       /\ SameSystemState(w, w0)
       /\ Commands(w.log) = <<>>

(***************************************************************************)
(* C8, as the code has it.  A launch with a site name and no subcommand    *)
(* provisions the site first (both files written, docker-compose up -d     *)
(* run); the dispatch step that follows prints the running message, runs   *)
(* no command, changes nothing on the system and ends with status 0.       *)
(***************************************************************************)
C8_NoSubcommandProvisionsThenReports ==
    [][(pc = "dispatch" /\ Len(argv) = 1) =>
          /\ BothWritten
          /\ AtOk(w.log, "run", UpCmd) # {}
          /\ w' = [w EXCEPT !.log = Append(@, Event("info",
                              <<"Your site is running on localhost.">>, "ok", w.cwd))]
          /\ status' = "0"
          /\ pc' = "exited"]_vars

C8_Witness ==
    /\ pc = "exited"
    /\ Len(argv) = 1
    /\ status = "0"
    /\ w.log[Len(w.log)].arg = <<"Your site is running on localhost.">>
    /\ ~SameSystemState(w, w0)

(***************************************************************************)
(* C9.  The two revisions of WordPressManager are identical in logic: for  *)
(* every operation, starting state and outcome of the external commands    *)
(* they issue the same commands, make the same changes and end with the    *)
(* same result.                                                            *)
(***************************************************************************)
C9_RevisionsAgree ==
    Len(lastOp) = 2 => alt = w

(***************************************************************************)
(* C10.  If a step of create_wordpress_site fails, the error propagates    *)
(* (the process ends with an exception, status 1), every file the run had  *)
(* already written and the site directory remain, and no later step runs:  *)
(* nothing follows the failing step, no hosts entry is added and no        *)
(* subcommand is dispatched.                                               *)
(***************************************************************************)
\* Positions of the steps of create_wordpress_site that did not succeed.
AtFailedStep(log) ==
    {i \in DOMAIN log :
        /\ log[i].res # "ok"
        /\ \/ log[i].op = "write"
           \/ i \in AtLink(log)
           \/ i \in At(log, "run", UpCmd)}

C10_NoRollback ==
    \A i \in AtFailedStep(w.log) :
       /\ pc = "exited"
       /\ status = "1"
       /\ w.exc # "none"
       /\ i = Len(w.log)
       /\ SiteDir(argv[1]) \in w.dirs
       /\ AtOk(w.log, "write", <<"docker-compose.yml">>) # {} =>
             w.files[SiteDir(argv[1]) \o <<"docker-compose.yml">>] = compose_content
       /\ AtOk(w.log, "write", <<"nginx.conf">>) # {} =>
             w.files[SiteDir(argv[1]) \o <<"nginx.conf">>] = nginx_content(argv[1])
       /\ w.hosts = w0.hosts
       /\ \A c \in {StartCmd, StopCmd, DownCmd} : At(w.log, "run", c) = {}
       /\ At(w.log, "rmtree", <<argv[1]>>) = {}

C10_Witness ==
    /\ pc = "exited"
    /\ \E i \in At(w.log, "run", UpCmd) : w.log[i].res = "fail"
    /\ SiteDir(argv[1]) \notin w0.dirs
    /\ SiteDir(argv[1]) \in w.dirs
    /\ w.files[SiteDir(argv[1]) \o <<"nginx.conf">>] = nginx_content(argv[1])

(***************************************************************************)
(* C11.  delete_site removes only the site directory tree and tears down   *)
(* the containers: it creates nothing, whatever it removes lies under the  *)
(* site directory and is removed only after a successful docker-compose    *)
(* down, and the hosts-file lines and the NGINX links are left exactly as  *)
(* they were, so the line and the link that provisioning added are still   *)
(* there after the delete.  Both revisions.                                *)
(***************************************************************************)
C11_DeleteLeavesHostsAndLink ==
    (Len(lastOp) = 2 /\ lastOp[1] = "delete_site")
    => \A x \in {w, alt} :
          /\ x.links = w0.links
          /\ x.hosts = w0.hosts
          /\ x.installed = w0.installed
          /\ x.dirs \subseteq w0.dirs
          /\ DOMAIN x.files \subseteq DOMAIN w0.files
          /\ \A f \in DOMAIN x.files : x.files[f] = w0.files[f]
          /\ \A d \in w0.dirs \ x.dirs : IsUnder(d, SiteDir(lastOp[2]))
          /\ \A f \in (DOMAIN w0.files) \ (DOMAIN x.files) :
                IsUnder(f, SiteDir(lastOp[2]))
          /\ (x.dirs # w0.dirs \/ DOMAIN x.files # DOMAIN w0.files)
                => AtOk(x.log, "run", DownCmd) # {}

C11_Witness ==
    /\ Len(lastOp) = 2
    /\ lastOp[1] = "delete_site"
    /\ w.exc = "none"
    /\ SiteDir(lastOp[2]) \in w0.dirs
    /\ SiteDir(lastOp[2]) \notin w.dirs
    /\ \E l \in DOMAIN w.links : w.links[l] = SiteDir(lastOp[2]) \o <<"nginx.conf">>
    /\ \E i \in DOMAIN w.hosts : w.hosts[i] = lastOp[2]

(***************************************************************************)
(* C12.  Provisioning precedes the dispatch of the subcommand.             *)
(***************************************************************************)
\* When the subcommand is about to be parsed, the site directory exists,
\* both files hold the rendered content, the link command and docker-compose
\* up -d have succeeded, the hosts step has run, and no start, stop or down
\* has been issued yet.
ProvisionedBeforeDispatch ==
    pc = "dispatch" =>
       /\ SiteDir(argv[1]) \in w.dirs
       /\ w.cwd = SiteDir(argv[1])
       /\ BothWritten
       /\ w.files[SiteDir(argv[1]) \o <<"docker-compose.yml">>] = compose_content
       /\ w.files[SiteDir(argv[1]) \o <<"nginx.conf">>] = nginx_content(argv[1])
       /\ \E u \in AtOk(w.log, "run", UpCmd) :
             system \in {"Linux", "Windows"} =>
                \E l \in AtLink(w.log) : \E h \in At(w.log, "append", <<"hosts">>) :
                   w.log[l].res = "ok" /\ l < u /\ u < h
       /\ \A c \in {StartCmd, StopCmd, DownCmd} : At(w.log, "run", c) = {}

\* Every start, stop or down of a run comes after a successful up -d of the
\* same run and is issued from inside the existing site directory.
UpPrecedesLifecycle ==
    \A c \in {StartCmd, StopCmd, DownCmd} :
       \A j \in At(w.log, "run", c) :
          /\ \E u \in AtOk(w.log, "run", UpCmd) : u < j
          /\ w.log[j].cwd = SiteDir(argv[1])
          /\ SiteDir(argv[1]) \in w0.dirs \/ AtOk(w.log, "makedirs", <<argv[1]>>) # {}

SuccessfulRun == pc = "exited" /\ status = "0" /\ Len(argv) >= 1

(***************************************************************************)
(* C12, as claimed.  In every run with a site name provisioning completes  *)
(* before the subcommand is dispatched, every start, stop or down follows  *)
(* an up -d of the same run, the action is never applied to an absent      *)
(* site, and each successful run on Linux or Windows appends one more      *)
(* hosts-file line.                                                        *)
(***************************************************************************)
C12_EverySuccessfulRunAppends ==
    /\ ProvisionedBeforeDispatch
    /\ UpPrecedesLifecycle
    /\ (SuccessfulRun /\ system \in {"Linux", "Windows"}) =>
          w.hosts = Append(w0.hosts, argv[1])

(***************************************************************************)
(* C12, as the code has it.  The same, except for the hosts line: a        *)
(* successful run on Linux or Windows appends exactly one more line when   *)
(* the write to the hosts file succeeds; when that write fails the failure *)
(* is only logged, the hosts file is left as it was and the run goes on    *)
(* to dispatch and can still end successfully.                             *)
(***************************************************************************)
C12_ProvisioningPrecedesDispatch ==
    /\ ProvisionedBeforeDispatch
    /\ UpPrecedesLifecycle
    /\ (SuccessfulRun /\ system \in {"Linux", "Windows"}) =>
          /\ Cardinality(At(w.log, "append", <<"hosts">>)) = 1
          /\ AtOk(w.log, "append", <<"hosts">>) # {} =>
                w.hosts = Append(w0.hosts, argv[1])
          /\ AtOk(w.log, "append", <<"hosts">>) = {} =>
                /\ w.hosts = w0.hosts
                /\ At(w.log, "error", <<"Failed to add hosts entry">>) # {}

C12_Witness ==
    /\ SuccessfulRun
    /\ system \in {"Linux", "Windows"}
    /\ AtOk(w.log, "run", StartCmd) # {}
    /\ w.hosts = Append(w0.hosts, argv[1])

====
